---- MODULE Spec2Model ----
(***************************************************************************)
(* Question generation back end of the Sinhala O/L mathematics generator:  *)
(* the retry / accumulation loops of the lesson-wise RAG system and of the *)
(* model-paper generator, their rate limiters, the reference corpus, and   *)
(* the routing layers in front of them.                                    *)
(*                                                                         *)
(* Time is measured in whole seconds relative to the current instant: a    *)
(* timestamp is stored as (timestamp - now), so "now" is always 0 and a    *)
(* timestamp that lies min_request_interval or more in the past is kept    *)
(* at -min_request_interval (the rate limiter cannot tell such values      *)
(* apart).  Texts are abstracted to their length, the identity of their    *)
(* first 50 characters (head) and the identity of the rest (tail).         *)
(*                                                                         *)
(* The pure functions (topic selection, the configuration a prompt is      *)
(* built from, the step lines of a STEPS block, the split of a response    *)
(* into regions) have specifications of their own: call holds the          *)
(* arguments of a call and ret what it returned.                           *)
(*                                                                         *)
(* Further specifications cover the application start-up and its          *)
(* singletons, context retrieval in front of the lesson loop, the attempt  *)
(* budget of the typed generators, the math-quiz documents and concurrent  *)
(* sign-ups; the paper endpoints also have a specification with fairness.  *)
(***************************************************************************)
EXTENDS Integers, Sequences, FiniteSets, TLC

\* ---------------------------------------------------------------- bounds
MaxRequested == 2
MaxRegions == 2
MaxPapers == 2
MaxReferences == 2

\* ------------------------------------------------------ program constants
min_request_interval == 2
PrefixLen == 50
ShortMinLen == 10
LessonMinLen == 20
EssayMinLen == 50
StructuredMinSubs == 2
EssayMinSubs == 3
ShortMaxAttempts == 3
StructuredMaxAttempts == 4
EssayMaxAttempts == 4
LessonMaxAttempts == 5
api_delay == 4
EmptySleep == 3
ProgressSleep == 2
ErrorSleep == 5
RateBackoff == 10

Min(a, b) == IF a < b THEN a ELSE b
Max(a, b) == IF a > b THEN a ELSE b

Gens == {"rag", "mpg"}
Kinds == {"lesson", "short_answer", "structured", "essay_type"}
TypedKinds == Kinds \ {"lesson"}
GenOf(kind) == IF kind = "lesson" THEN "rag" ELSE "mpg"

\* ------------------------------------------------------------------ texts
Txt(l, h, t) == [len |-> l, head |-> h, tail |-> t]
EmptyTxt == Txt(0, 0, 0)

\* text[:50]
Prefix(t) == [len |-> Min(t.len, PrefixLen), head |-> t.head]

\* ---------------------------------------------------------------- regions
\* A region is one delimited section of a model response after field
\* extraction: the question / context text, the number of sub-questions whose
\* text is non-empty, the length of the solution text (lesson-wise) and the
\* NUMBER the model wrote (0: none).
Reg(q, n, s, num) == [question |-> q, subs |-> n, solution |-> s, number |-> num]

Regions(kind) ==
    CASE kind = "short_answer" ->
            { Reg(Txt(ShortMinLen, 1, 0), 0, 0, 1),
              Reg(Txt(ShortMinLen + 1, 1, 0), 0, 0, 0),
              Reg(Txt(60, 1, 1), 0, 0, 7),
              Reg(Txt(60, 2, 1), 0, 0, 2) }
      [] kind = "structured" ->
            { Reg(EmptyTxt, StructuredMinSubs, 0, 1),
              Reg(Txt(60, 1, 1), StructuredMinSubs - 1, 0, 1),
              Reg(Txt(60, 1, 1), StructuredMinSubs, 0, 7),
              Reg(Txt(60, 2, 1), StructuredMinSubs + 1, 0, 0) }
      [] kind = "essay_type" ->
            { Reg(Txt(EssayMinLen, 1, 0), EssayMinSubs, 0, 1),
              Reg(Txt(EssayMinLen + 1, 1, 1), EssayMinSubs - 1, 0, 1),
              Reg(Txt(EssayMinLen + 1, 1, 1), EssayMinSubs, 0, 7),
              Reg(Txt(EssayMinLen + 1, 2, 1), EssayMinSubs + 1, 0, 0) }
      [] kind = "lesson" ->
            { Reg(Txt(LessonMinLen, 1, 0), 0, LessonMinLen + 1, 0),
              Reg(Txt(60, 2, 1), 0, LessonMinLen, 0),
              Reg(Txt(60, 1, 1), 0, LessonMinLen + 1, 0),
              Reg(Txt(60, 1, 2), 0, LessonMinLen + 1, 0),
              Reg(Txt(60, 2, 1), 0, LessonMinLen + 1, 0) }

\* the texts of a model response: sequences of at most MaxRegions regions
Responses(kind) == UNION { [1..n -> Regions(kind)] : n \in 0..MaxRegions }

\* ---------------------------------------------------------------- parsers
\* validation gate of _parse_short_answer_response
ShortGate(r) == r.question.len > 0 /\ r.question.len > ShortMinLen

\* a structured gate that takes any question with a sub-question
StructuredGateAnySubs(r) == r.question.len > 0 /\ r.subs >= 1

\* validation gate of _parse_structured_response
StructuredGate(r) == r.question.len > 0 /\ r.subs >= StructuredMinSubs

\* validation gate of _parse_essay_response
EssayGate(r) ==
    r.question.len > 0 /\ r.question.len > EssayMinLen /\ r.subs >= EssayMinSubs

\* validation of _extract_question
LessonGate(r) == r.question.len > LessonMinLen /\ r.solution > LessonMinLen

Gate(kind, r) ==
    CASE kind = "short_answer" -> ShortGate(r)
      [] kind = "structured" -> StructuredGate(r)
      [] kind = "essay_type" -> EssayGate(r)
      [] kind = "lesson" -> LessonGate(r)

\* the question record a parser builds from an accepted region; n is the
\* number of questions the parser has accepted before it
QData(kind, r, n) ==
    IF kind = "lesson"
    THEN [question |-> r.question, solution |-> r.solution]
    ELSE [question_number |-> IF r.number > 0 THEN r.number ELSE n + 1,
          question |-> r.question,
          subs |-> r.subs]

\* int(num_match.group(1)) raises on a NUMBER of more digits than int() takes
\* (number < 0); the lesson-wise parser does not read the number
Raises(kind, r) == kind # "lesson" /\ r.number < 0

\* a loop over the regions that an exception ends
RECURSIVE ParseFromUntilRaise(_, _, _)
ParseFromUntilRaise(kind, regions, questions) ==
    IF regions = <<>> THEN questions
    ELSE LET r == Head(regions)
         IN  IF Raises(kind, r) THEN questions
             ELSE ParseFromUntilRaise(kind, Tail(regions),
                       IF Gate(kind, r)
                       THEN Append(questions, QData(kind, r, Len(questions)))
                       ELSE questions)

\* for match in matches: try: extract; gate; append / except: continue
RECURSIVE ParseFrom(_, _, _)
ParseFrom(kind, regions, questions) ==
    IF regions = <<>> THEN questions
    ELSE LET r == Head(regions)
         IN  ParseFrom(kind, Tail(regions),
                       IF ~Raises(kind, r) /\ Gate(kind, r)
                       THEN Append(questions, QData(kind, r, Len(questions)))
                       ELSE questions)

\* _parse_short_answer_response / _parse_structured_response /
\* _parse_essay_response / _parse_response
Parse(kind, regions) == ParseFrom(kind, regions, <<>>)


\* ------------------------------------------------------------ accumulation
\* an accumulation that appends every parsed question, whatever the length of
\* the list
RECURSIVE AccumulateTypedUnguarded(_, _, _)
AccumulateTypedUnguarded(all, new, count) ==
    IF new = <<>> THEN all
    ELSE AccumulateTypedUnguarded(
            Append(all, [Head(new) EXCEPT !.question_number = Len(all) + 1]),
            Tail(new), count)

\* an accumulation that keeps the number the parser gave the question
RECURSIVE AccumulateTypedKeepingNumber(_, _, _)
AccumulateTypedKeepingNumber(all, new, count) ==
    IF new = <<>> THEN all
    ELSE AccumulateTypedKeepingNumber(
            IF Len(all) < count THEN Append(all, Head(new)) ELSE all,
            Tail(new), count)

\* for q in new_questions: if len(all_questions) < count: renumber, append
RECURSIVE AccumulateTyped(_, _, _)
AccumulateTyped(all, new, count) ==
    IF new = <<>> THEN all
    ELSE AccumulateTyped(
            IF Len(all) < count
            THEN Append(all, [Head(new) EXCEPT !.question_number = Len(all) + 1])
            ELSE all,
            Tail(new), count)

\* any(existing['question'][:50] == q['question'][:50] for existing in all_questions)
IsDuplicate(all, q) ==
    \E i \in 1..Len(all) : Prefix(all[i].question) = Prefix(q.question)

\* an accumulation that puts each new question in front of the list
RECURSIVE AccumulateLessonPrepending(_, _, _)
AccumulateLessonPrepending(all, new, count) ==
    IF new = <<>> THEN all
    ELSE AccumulateLessonPrepending(
            IF Len(all) < count /\ ~IsDuplicate(all, Head(new))
            THEN <<Head(new)>> \o all
            ELSE all,
            Tail(new), count)

\* for q in new_questions: if len(all_questions) < num_questions and not
\* is_duplicate: append
RECURSIVE AccumulateLesson(_, _, _)
AccumulateLesson(all, new, count) ==
    IF new = <<>> THEN all
    ELSE AccumulateLesson(
            IF Len(all) < count /\ ~IsDuplicate(all, Head(new))
            THEN Append(all, Head(new))
            ELSE all,
            Tail(new), count)

Accumulate(kind, all, new, count) ==
    IF kind = "lesson" THEN AccumulateLesson(all, new, count)
    ELSE AccumulateTyped(all, new, count)

MaxAttempts(kind) ==
    CASE kind = "short_answer" -> ShortMaxAttempts
      [] kind = "structured" -> StructuredMaxAttempts
      [] kind = "essay_type" -> EssayMaxAttempts
      [] kind = "lesson" -> LessonMaxAttempts

\* ------------------------------------------------------- reference corpus
\* A past-paper record: its id, the segments of its topic string between
\* the '/' delimiters (stripped; "" is a blank segment), and its type ("" when
\* the record has no type).  A record that is not an object is [bad |-> TRUE].
Rec(id, segs, type) == [bad |-> FALSE, id |-> id, topic |-> segs, type |-> type]
BadRec == [bad |-> TRUE]

\* _parse_topics: split on '/', strip, drop the empty segments
parse_topics(segs) == SelectSeq(segs, LAMBDA t : t # "")

\* q.get('type', 'short_answer')
IndexType(q) == IF q.type = "" THEN "short_answer" ELSE q.type

\* d[k].append(q), creating the key when it is new
AppendAt(d, k, q) ==
    IF k \in DOMAIN d THEN [d EXCEPT ![k] = Append(@, q)]
    ELSE [x \in DOMAIN d \cup {k} |-> IF x = k THEN <<q>> ELSE d[x]]

RECURSIVE AppendAtAll(_, _, _)
AppendAtAll(d, ks, q) ==
    IF ks = <<>> THEN d ELSE AppendAtAll(AppendAt(d, Head(ks), q), Tail(ks), q)

Range(f) == { f[x] : x \in DOMAIN f }
EmptyIndex == [x \in {} |-> <<>>]

\* the indexing loop of load_past_paper_questions over the records qs, from
\* the state st; it stops at a record that raises
RECURSIVE IndexRecords(_, _)
IndexRecords(st, qs) ==
    IF qs = <<>> THEN [st EXCEPT !.raised = FALSE]
    ELSE LET q == Head(qs)
             appended == [st EXCEPT !.questions = Append(@, q)]
         IN  IF q.bad THEN [appended EXCEPT !.raised = TRUE]
             ELSE IndexRecords(
                     [appended EXCEPT
                        !.all_topics = @ \cup Range(parse_topics(q.topic)),
                        !.by_topic = AppendAtAll(@, parse_topics(q.topic), q),
                        !.by_type = AppendAt(@, IndexType(q), q)],
                     Tail(qs))

\* files: a location is <<directory, name>>; the directories are the working
\* directory, the project root the module lives under, and "abs" for a path
\* given in absolute form
DefaultName == "data/extracted_text/model_paper_questions.json"
Loc(dir, name) == <<dir, name>>

\* possible_paths of load_past_paper_questions, in order
possible_paths(json_path) ==
    IF json_path.abs
    THEN << Loc("abs", json_path.name), Loc("abs", json_path.name),
            Loc("root", DefaultName), Loc("abs", json_path.name) >>
    ELSE << Loc("cwd", json_path.name), Loc("root", json_path.name),
            Loc("root", DefaultName), Loc("cwd", json_path.name) >>

Missing == [kind |-> "missing"]
Malformed == [kind |-> "malformed"]
Questions(qs) == [kind |-> "questions", questions |-> qs]

Found(fs, json_path) ==
    \E i \in DOMAIN possible_paths(json_path) : fs[possible_paths(json_path)[i]].kind # "missing"

\* the first of the possible paths that exists in the file system fs
actual_path(fs, json_path) ==
    LET ps == possible_paths(json_path)
        hits == { i \in DOMAIN ps : fs[ps[i]].kind # "missing" }
    IN  ps[CHOOSE i \in hits : \A j \in hits : i <= j]

\* a loader that reports a missing file without touching past_papers_loaded
load_without_reset(cur, fs, json_path) ==
    IF ~Found(fs, json_path) THEN [cur EXCEPT !.ret = FALSE]
    ELSE [cur EXCEPT !.loaded = fs[actual_path(fs, json_path)].kind = "questions",
                     !.ret = fs[actual_path(fs, json_path)].kind = "questions"]

\* load_past_paper_questions: the corpus fields of the generator and the
\* value returned, from the fields cur, the file system fs and the argument
load_past_paper_questions(cur, fs, json_path) ==
    LET failed == [cur EXCEPT !.loaded = FALSE, !.ret = FALSE]
    IN  IF ~Found(fs, json_path) THEN failed
        ELSE LET c == fs[actual_path(fs, json_path)]
             IN  IF c.kind = "malformed" THEN failed
                 ELSE IF c.questions = <<>> THEN failed
                 ELSE LET st == IndexRecords(
                                  [questions |-> <<>>, by_topic |-> EmptyIndex,
                                   by_type |-> EmptyIndex, all_topics |-> {},
                                   raised |-> FALSE],
                                  c.questions)
                      IN  IF st.raised
                          THEN [questions |-> st.questions, by_topic |-> st.by_topic,
                                by_type |-> st.by_type, topics |-> cur.topics,
                                loaded |-> FALSE, ret |-> FALSE]
                          ELSE [questions |-> st.questions, by_topic |-> st.by_topic,
                                by_type |-> st.by_type, topics |-> st.all_topics,
                                loaded |-> TRUE, ret |-> TRUE]

\* d.get(k, [])
GetList(d, k) == IF k \in DOMAIN d THEN d[k] ELSE <<>>

InSeq(q, qs) == \E i \in DOMAIN qs : qs[i] = q

\* the first loop of _get_reference_questions over the questions of one topic
RECURSIVE AddTopical(_, _, _)
AddTopical(cands, qs, qtype) ==
    IF qs = <<>> THEN cands
    ELSE AddTopical(
            IF Head(qs).type = qtype /\ ~InSeq(Head(qs), cands)
            THEN Append(cands, Head(qs)) ELSE cands,
            Tail(qs), qtype)

RECURSIVE TopicalCandidates(_, _, _, _)
TopicalCandidates(cands, by_topic, topics, qtype) ==
    IF topics = <<>> THEN cands
    ELSE TopicalCandidates(AddTopical(cands, GetList(by_topic, Head(topics)), qtype),
                           by_topic, Tail(topics), qtype)

\* the widening loop of _get_reference_questions, with its break
RECURSIVE Widen(_, _, _)
Widen(cands, qs, count) ==
    IF qs = <<>> THEN cands
    ELSE LET next == IF ~InSeq(Head(qs), cands) THEN Append(cands, Head(qs))
                     ELSE cands
         IN  IF Len(next) >= count * 2 THEN next
             ELSE Widen(next, Tail(qs), count)

\* the candidates when the widening test is len(candidates) <= count
CandidatesWidenedAtCount(by_topic, by_type, topics, qtype, count) ==
    LET topical == TopicalCandidates(<<>>, by_topic, topics, qtype)
    IN  IF Len(topical) <= count
        THEN Widen(topical, GetList(by_type, qtype), count)
        ELSE topical

\* the candidates of _get_reference_questions before sampling
Candidates(by_topic, by_type, topics, qtype, count) ==
    LET topical == TopicalCandidates(<<>>, by_topic, topics, qtype)
    IN  IF Len(topical) < count
        THEN Widen(topical, GetList(by_type, qtype), count)
        ELSE topical

\* random.sample(cands, k): the lists it can return
Samples(cands, k) ==
    { [i \in 1..k |-> cands[f[i]]] :
        f \in { g \in [1..k -> DOMAIN cands] :
                  \A i, j \in 1..k : i # j => g[i] # g[j] } }

\* _get_reference_questions: the lists it can return
get_reference_questions(by_topic, by_type, topics, qtype, count) ==
    LET cands == Candidates(by_topic, by_type, topics, qtype, count)
    IN  IF cands = <<>> THEN {<<>>}
        ELSE Samples(cands, Min(count, Len(cands)))

\* ------------------------------------------------------------------ state
VARIABLES
    model,                 \* [Gens -> BOOLEAN]: self.model is not None
    last_request_time,     \* [Gens -> Int]: self.last_request_time - now
    files,                 \* the file system: location -> content
    past_paper_questions,  \* ModelPaperGenerator.past_paper_questions
    past_paper_by_topic,   \* ModelPaperGenerator.past_paper_by_topic
    past_paper_by_type,    \* ModelPaperGenerator.past_paper_by_type
    available_topics,      \* ModelPaperGenerator.available_topics (as a set)
    past_papers_loaded,    \* ModelPaperGenerator.past_papers_loaded
    load_result,           \* the latest load_past_paper_questions call: argument, value
    references,            \* what _get_reference_questions returned since that load
    pc,                    \* "idle", "loop" (in a generator loop) or "done" (answered)
    req,                   \* the request being served
    all_questions,         \* the accumulated list of the loop
    attempts,              \* attempts / attempt
    result,                \* what the generator method returned or raised
    response,              \* what the endpoint answered
    calls,                 \* model.generate_content calls issued for req
    waits,                 \* _rate_limit_wait calls made for req
    since_call,            \* seconds since the latest generate_content call
    call_gap,              \* seconds between the latest call and the one before
    is_generating,         \* generation_status["is_generating"]
    last_paper,            \* generation_status["last_paper"]: a paper id, 0 for None
    scheduled,             \* background tasks added and not yet started
    running,               \* the generate_model_paper call that occupies the event loop
    papers,                \* papers generated so far
    paper_response,        \* what the latest paper endpoint answered
    last_outcome,          \* how the latest generate_content call of req ended
    only_rate,             \* every call of req so far ended in a rate-limit error
    last_sleep,            \* seconds the latest pass of the loop slept after its call
    call,                  \* the call of a pure function: its name and arguments
    ret,                   \* what that call returned
    topic_configs,         \* SinhalaRAGSystem.topic_configs
    api_key,               \* GEMINI_API_KEY is set in the environment
    app,                   \* "starting" until startup_event has run, then "serving"
    instance,              \* [Gens -> BOOLEAN]: the singleton of dependencies.py exists
    quizzes,               \* math_quizzes_collection: quiz id -> document, or NoQuiz
    users,                 \* users_collection: the e-mails of its documents, in insertion order
    signup                 \* the sign_up requests in flight: where each one is

instVars == <<model, last_request_time>>
corpusVars == <<files, past_paper_questions, past_paper_by_topic, past_paper_by_type,
                available_topics, past_papers_loaded, load_result, references>>
reqVars == <<pc, req, all_questions, attempts, result, response, calls, waits,
             last_outcome, only_rate, last_sleep>>
clockVars == <<since_call, call_gap>>

paperVars == <<is_generating, last_paper, scheduled, running, papers, paper_response>>

storeVars == <<quizzes, users, signup>>
appVars == <<api_key, app, instance, storeVars>>
fnVars == <<call, ret, topic_configs, appVars>>

vars == <<instVars, corpusVars, reqVars, clockVars, paperVars, fnVars>>

NoReq == [kind |-> "none", route |-> "none", count |-> 0]
NoResult == [type |-> "none"]
NoResponse == [status |-> 0]

Routes(kind) ==
    IF kind = "lesson" THEN {"api", "router", "direct"} ELSE {"router", "direct"}

\* the outcomes of one model.generate_content call
Outcomes(kind) ==
    {[type |-> "error", rate |-> b] : b \in BOOLEAN}
        \cup {[type |-> "empty"]}
        \cup {[type |-> "text", regions |-> rs] : rs \in Responses(kind)}


\* the timestamps after d seconds have passed
Pass(lrt, d) == [g \in Gens |-> Max(lrt[g] - d, 0 - min_request_interval)]
Later(since, d) == Min(since + d, min_request_interval)

\* _rate_limit_wait: the seconds it sleeps
WaitTime(g) ==
    LET elapsed == 0 - last_request_time[g]
    IN  IF elapsed < min_request_interval THEN min_request_interval - elapsed ELSE 0

\* _rate_limit_wait: the timestamps when it returns
AfterWait(g) == [Pass(last_request_time, WaitTime(g)) EXCEPT ![g] = 0]

\* -------------------------------------------------------------- file systems
Path(abs, name) == [abs |-> abs, name |-> name]
Names == {"papers.json", "missing.json", DefaultName}
Locs == ({"cwd", "root"} \X Names) \cup {Loc("abs", "/nonexistent/path")}
Paths == {Path(FALSE, n) : n \in Names} \cup {Path(TRUE, "/nonexistent/path")}

CorpusA ==
    << Rec(1, <<"t1">>, "short_answer"),
       Rec(2, <<"t1", "t2">>, "structured"),
       Rec(3, <<"t2", "">>, "essay_type"),
       Rec(4, <<"t3">>, "") >>
CorpusB == << Rec(5, <<"t1">>, "short_answer"), Rec(6, <<"">>, "structured") >>
CorpusBad == << Rec(7, <<"t4">>, "short_answer"), BadRec, Rec(8, <<"t1">>, "essay_type") >>

\* a file system with content a at cwd/papers.json, b at root/papers.json and
\* c at the built-in default location
FileSystem(a, b, c) ==
    [l \in Locs |->
        CASE l = Loc("cwd", "papers.json") -> a
          [] l = Loc("root", "papers.json") -> b
          [] l = Loc("root", DefaultName) -> c
          [] OTHER -> Missing]

\* the deployment the generation requests run in: one corpus file
FsGen == FileSystem(Questions(CorpusA), Missing, Missing)
GenPaths == {Path(FALSE, "papers.json"), Path(FALSE, "missing.json")}

NoLoad == [called |-> FALSE, path |-> Path(FALSE, ""), ret |-> FALSE]
NoReferences ==
    [called |-> FALSE, topics |-> <<>>, type |-> "none", count |-> 0,
     pool |-> <<>>, questions |-> <<>>]

InitCorpus(fs) ==
    /\ files = fs
    /\ past_paper_questions = <<>>
    /\ past_paper_by_topic = EmptyIndex
    /\ past_paper_by_type = EmptyIndex
    /\ available_topics = {}
    /\ past_papers_loaded = FALSE
    /\ load_result = NoLoad
    /\ references = NoReferences

InitRequest ==
    /\ model = [g \in Gens |-> FALSE]
    /\ last_request_time = [g \in Gens |-> 0 - min_request_interval]
    /\ pc = "idle"
    /\ req = NoReq
    /\ all_questions = <<>>
    /\ attempts = 0
    /\ result = NoResult
    /\ response = NoResponse
    /\ calls = 0
    /\ waits = 0
    /\ last_outcome = "none"
    /\ only_rate = FALSE
    /\ last_sleep = 0
    /\ since_call = min_request_interval
    /\ call_gap = min_request_interval

NoPaperResponse == [status |-> 0]

NoCall == [fn |-> "none"]
NoReturn == [fn |-> "none"]

\* ------------------------------------------------------ topic configurations
\* rag_model.py _setup_topic_configs.  A configuration is a dict with the keys
\* 'difficulty' (level -> parameters) and 'prompt_template'; a missing key
\* reads as its .get default, and empty marks the dict {}.  Topic names are
\* written without their zero-width joiners.
DefaultTopicName == "පොළිය"
BuiltinTopics ==
    {DefaultTopicName, "සමීකරණ", "කොටස් වෙළෙඳපොළ", "ලඝුගණක", "ශ්රීඝ්රතාවය",
     "සමාන්තර ශ්රේණි"}
Levels == {"easy", "medium", "hard"}
ParamKeys == {"description", "steps", "numbers", "context"}

\* the parameters written for one topic at one level
Params(topic, level) == [k \in ParamKeys |-> <<topic, level, k>>]

NoParams == [k \in {} |-> <<>>]

Config(e, d, t) == [empty |-> e, difficulty |-> d, prompt_template |-> t]

EmptyConfig == Config(TRUE, NoParams, <<>>)

BuiltinConfig(topic) ==
    Config(FALSE, [l \in Levels |-> Params(topic, l)], <<topic, "template">>)

BuiltinConfigs == [t \in BuiltinTopics |-> BuiltinConfig(t)]

\* the application after a start-up with the key set
MaxUsers == 3

QuizIds == {"q1", "q2"}
Owners == {"u1", "u2"}
Emails == {"a@x.lk", "b@x.lk"}
Requests == {"r1", "r2"}

NoQuiz == [status |-> "none", userId |-> "none"]
NoSignup == [pc |-> "idle", email |-> "none"]

\* empty collections, no request in flight
InitStore ==
    /\ quizzes = [q \in QuizIds |-> NoQuiz]
    /\ users = <<>>
    /\ signup = [r \in Requests |-> NoSignup]

InitApp ==
    /\ api_key = TRUE
    /\ app = "serving"
    /\ instance = [g \in Gens |-> TRUE]
    /\ InitStore

InitFn ==
    /\ call = NoCall
    /\ ret = NoReturn
    /\ topic_configs = BuiltinConfigs
    /\ InitApp

InitPaper ==
    /\ is_generating = FALSE
    /\ last_paper = 0
    /\ scheduled = 0
    /\ running = "none"
    /\ papers = 0
    /\ paper_response = NoPaperResponse

InitGen == InitRequest /\ InitCorpus(FsGen) /\ InitPaper /\ InitFn

\* generator.load_past_paper_questions(json_path)
Load(json_path) ==
    /\ pc = "idle"
    /\ LET cur == [questions |-> past_paper_questions, by_topic |-> past_paper_by_topic,
                   by_type |-> past_paper_by_type, topics |-> available_topics,
                   loaded |-> past_papers_loaded, ret |-> FALSE]
           new == load_past_paper_questions(cur, files, json_path)
       IN  /\ past_paper_questions' = new.questions
           /\ past_paper_by_topic' = new.by_topic
           /\ past_paper_by_type' = new.by_type
           /\ available_topics' = new.topics
           /\ past_papers_loaded' = new.loaded
           /\ load_result' = [called |-> TRUE, path |-> json_path, ret |-> new.ret]
    /\ references' = NoReferences
    /\ UNCHANGED <<instVars, files, reqVars, clockVars, fnVars, paperVars>>

\* a second passes: between requests, or while a call or the work around it
\* takes its time
Tick ==
    /\ pc # "done"
    /\ last_request_time' = Pass(last_request_time, 1)
    /\ since_call' = Later(since_call, 1)
    /\ UNCHANGED <<model, corpusVars, reqVars, call_gap, paperVars, fnVars>>

\* the loop variables at the start of a generator method
EnterLoop(kind, route, count) ==
    /\ pc' = "loop"
    /\ req' = [kind |-> kind, route |-> route, count |-> count]
    /\ model' = [model EXCEPT ![GenOf(kind)] = TRUE]
    /\ all_questions' = <<>>
    /\ attempts' = 0
    /\ calls' = 0
    /\ waits' = 0
    /\ last_outcome' = "none"
    /\ only_rate' = TRUE
    /\ last_sleep' = 0
    /\ result' = NoResult
    /\ response' = NoResponse
    /\ UNCHANGED <<last_request_time, corpusVars, clockVars, fnVars, paperVars>>

\* a request that ends before the loop: nothing of the generator changes
Refuse(kind, route, count, res, resp) ==
    /\ pc' = "done"
    /\ req' = [kind |-> kind, route |-> route, count |-> count]
    /\ all_questions' = <<>>
    /\ attempts' = 0
    /\ calls' = 0
    /\ waits' = 0
    /\ last_outcome' = "none"
    /\ only_rate' = FALSE
    /\ last_sleep' = 0
    /\ result' = res
    /\ response' = resp
    /\ UNCHANGED <<instVars, corpusVars, clockVars, fnVars, paperVars>>

PreconditionError ==
    [type |-> "error", error |-> "ValueError", msg |-> "Past papers not loaded",
     has_quota |-> FALSE, has_rate |-> FALSE]

\* SinhalaRAGSystem.generate_questions up to its loop, called directly, by
\* /generate (apis/api.py) or by /math/generate (routers/math_gen.py)
StartLesson(route, count) ==
    /\ pc = "idle"
    /\ EnterLoop("lesson", route, count)

\* a typed generator that builds its model and waits for the rate limit
\* before it looks at past_papers_loaded
StartTypedEager(kind, count) ==
    /\ pc = "idle"
    /\ IF ~past_papers_loaded
       THEN /\ pc' = "done"
            /\ req' = [kind |-> kind, route |-> "direct", count |-> count]
            /\ model' = [model EXCEPT ![GenOf(kind)] = TRUE]
            /\ last_request_time' = AfterWait(GenOf(kind))
            /\ waits' = 1
            /\ result' = PreconditionError
            /\ UNCHANGED <<corpusVars, all_questions, attempts, response, calls,
                           last_outcome, only_rate, last_sleep, clockVars, fnVars,
                           paperVars>>
       ELSE EnterLoop(kind, "direct", count)

\* generate_short_answer_questions / generate_structured_questions /
\* generate_essay_questions up to the loop
StartTyped(kind, count) ==
    /\ pc = "idle"
    /\ IF ~past_papers_loaded
       THEN Refuse(kind, "direct", count, PreconditionError, NoResponse)
       ELSE EnterLoop(kind, "direct", count)

\* /model-paper/generate/short-answer, /structured, /essay up to the loop
StartTypedEndpoint(kind, count) ==
    /\ pc = "idle"
    /\ IF ~past_papers_loaded
       THEN Refuse(kind, "router", count, NoResult,
                   [status |-> 400, detail |-> "Past papers not loaded"])
       ELSE EnterLoop(kind, "router", count)

\* how a generate_content call ended: with text, with no text, with an
\* exception whose message holds "quota" or "rate", or with another exception
Ended(out) ==
    IF out.type = "error" THEN (IF out.rate THEN "rate" ELSE "error") ELSE out.type

\* one iteration of a generator loop: attempts += 1, _rate_limit_wait, one
\* generate_content call that ends as out, then `sleep` seconds of time.sleep,
\* leaving `all` accumulated (the time the call itself takes passes by Tick)
Iteration(kind, out, sleep, all) ==
    /\ attempts' = attempts + 1
    /\ waits' = waits + 1
    /\ calls' = calls + 1
    /\ last_outcome' = Ended(out)
    /\ only_rate' = (only_rate /\ Ended(out) = "rate")
    /\ last_sleep' = sleep
    /\ call_gap' = Later(since_call, WaitTime(GenOf(kind)))
    /\ last_request_time' = Pass(AfterWait(GenOf(kind)), sleep)
    /\ since_call' = Later(0, sleep)
    /\ all_questions' = all
    /\ UNCHANGED <<model, corpusVars, pc, req, result, response, paperVars, fnVars>>

\* a while condition that only looks at the length of the list
LoopingUnbounded(kind) ==
    /\ pc = "loop"
    /\ req.kind = kind
    /\ Len(all_questions) < req.count

\* a while condition that gives up after a response without text
LoopingUntilEmpty(kind) ==
    /\ pc = "loop"
    /\ req.kind = kind
    /\ Len(all_questions) < req.count
    /\ attempts < MaxAttempts(kind)
    /\ last_outcome # "empty"

\* the while condition of the generator loops
Looping(kind) ==
    /\ pc = "loop"
    /\ req.kind = kind
    /\ Len(all_questions) < req.count
    /\ attempts < MaxAttempts(kind)

\* the list after a response text was parsed and accumulated
Accumulated(kind, out) ==
    IF out.type = "text"
    THEN Accumulate(kind, all_questions, Parse(kind, out.regions), req.count)
    ELSE all_questions

\* generate_short_answer_questions, one pass of the while loop
AttemptShort ==
    /\ Looping("short_answer")
    /\ \E out \in Outcomes("short_answer") :
          Iteration("short_answer", out,
                    IF out.type = "error" THEN api_delay ELSE 0,
                    Accumulated("short_answer", out))

\* generate_structured_questions, one pass of the while loop
AttemptStructured ==
    /\ Looping("structured")
    /\ \E out \in Outcomes("structured") :
          Iteration("structured", out, api_delay, Accumulated("structured", out))

\* generate_essay_questions, one pass of the while loop
AttemptEssay ==
    /\ Looping("essay_type")
    /\ \E out \in Outcomes("essay_type") :
          Iteration("essay_type", out, api_delay, Accumulated("essay_type", out))

\* the time.sleep of one pass of the loop of generate_questions: none when
\* the loop breaks, 2 s after a text, 3 s after an empty response, attempt x 10 s
\* after a rate-limit error, 5 s after another error
LessonSleep(out, all) ==
    CASE out.type = "text" -> IF Len(all) >= req.count THEN 0 ELSE ProgressSleep
      [] out.type = "empty" -> EmptySleep
      [] out.type = "error" ->
            IF out.rate THEN (attempts + 1) * RateBackoff ELSE ErrorSleep

\* SinhalaRAGSystem.generate_questions, one pass of the while loop
AttemptLesson ==
    /\ Looping("lesson")
    /\ \E out \in Outcomes("lesson") :
          Iteration("lesson", out,
                    LessonSleep(out, Accumulated("lesson", out)),
                    Accumulated("lesson", out))

\* the exception generate_questions raises when nothing was accumulated; the
\* routing layer looks for the words "quota" and "rate" in the lower-cased
\* message, and "generate" contains "rate"
FailedToGenerate ==
    [type |-> "error", error |-> "Exception",
     msg |-> "Failed to generate questions. Please try again.",
     has_quota |-> FALSE, has_rate |-> TRUE]

\* what the generator method returns or raises once its loop has ended
Returned(kind, all, count) ==
    IF kind = "lesson"
    THEN IF all # <<>>
         THEN [type |-> "batch", kind |-> kind,
               questions |-> SubSeq(all, 1, Min(count, Len(all)))]
         ELSE FailedToGenerate
    ELSE [type |-> "batch", kind |-> kind, questions |-> all,
          count |-> Len(all), requested |-> count]

\* GenerationResponse of routers/model_paper.py
TypedResponse(res) ==
    [status |-> 200,
     body |-> [success |-> TRUE, type |-> res.kind, questions |-> res.questions,
               count |-> res.count, requested |-> res.requested]]

\* /generate of apis/api.py: QuestionResponse, or 429 / 500
ApiLessonResponse(res, count) ==
    IF res.type = "batch"
    THEN [status |-> 200,
          body |-> [success |-> TRUE, questions |-> res.questions,
                    count |-> Len(res.questions), requested |-> count]]
    ELSE IF res.has_quota \/ res.has_rate
         THEN [status |-> 429, detail |-> "Rate limit exceeded"]
         ELSE [status |-> 500, detail |-> res.msg]

\* /math/generate of routers/math_gen.py: QuestionResponse, or 500; saved is
\* whether the insert into the document store succeeded
RouterLessonResponse(res, saved) ==
    IF res.type = "batch" /\ saved
    THEN [status |-> 200,
          body |-> [success |-> TRUE, questions |-> res.questions]]
    ELSE [status |-> 500,
          detail |-> IF res.type = "batch" THEN "insert failed" ELSE res.msg]

Respond(rq, res, saved) ==
    CASE rq.route = "direct" -> NoResponse
      [] rq.route = "api" -> ApiLessonResponse(res, rq.count)
      [] rq.route = "router" /\ rq.kind = "lesson" -> RouterLessonResponse(res, saved)
      [] rq.route = "router" /\ rq.kind # "lesson" -> TypedResponse(res)

\* the loop has ended: the generator method returns or raises and the endpoint
\* answers
Finish ==
    /\ pc = "loop"
    /\ ~(Len(all_questions) < req.count /\ attempts < MaxAttempts(req.kind))
    /\ \E saved \in BOOLEAN :
          /\ result' = Returned(req.kind, all_questions, req.count)
          /\ response' = Respond(req, result', saved)
    /\ pc' = "done"
    /\ UNCHANGED <<instVars, corpusVars, req, all_questions, attempts, calls, waits,
                   last_outcome, only_rate, last_sleep, clockVars, fnVars,
                   paperVars>>

\* the answered request leaves: its locals are gone
Release ==
    /\ pc = "done"
    /\ pc' = "idle"
    /\ req' = NoReq
    /\ all_questions' = <<>>
    /\ attempts' = 0
    /\ calls' = 0
    /\ waits' = 0
    /\ last_outcome' = "none"
    /\ only_rate' = FALSE
    /\ last_sleep' = 0
    /\ result' = NoResult
    /\ response' = NoResponse
    /\ UNCHANGED <<instVars, corpusVars, clockVars, fnVars, paperVars>>

Counts == 1..MaxRequested

NextGen ==
    \/ Tick
    \/ \E p \in GenPaths : Load(p)
    \/ \E r \in Routes("lesson"), n \in Counts : StartLesson(r, n)
    \/ \E k \in TypedKinds, n \in Counts : StartTyped(k, n)
    \/ \E k \in TypedKinds, n \in Counts : StartTypedEndpoint(k, n)
    \/ AttemptShort
    \/ AttemptStructured
    \/ AttemptEssay
    \/ AttemptLesson
    \/ Finish
    \/ Release

SpecGen == InitGen /\ [][NextGen]_vars

\* ------------------------------------------------------ corpus loading
\* the deployments: what lies at cwd/papers.json, at root/papers.json and at
\* the built-in default location
FileSystems ==
    { FileSystem(a, b, c) :
        a \in {Missing, Malformed, Questions(<<>>), Questions(CorpusA),
               Questions(CorpusBad)},
        b \in {Missing, Questions(CorpusB)},
        c \in {Missing, Questions(CorpusB)} }

TopicLists == { <<>>, <<"t1">>, <<"t2", "t1">>, <<"t9">> }

\* generator._get_reference_questions(topics, question_type, count)
GetReferenceQuestions(topics, question_type, count) ==
    /\ pc = "idle"
    /\ \E rs \in get_reference_questions(past_paper_by_topic, past_paper_by_type,
                                         topics, question_type, count) :
          references' = [called |-> TRUE, topics |-> topics,
                         type |-> question_type, count |-> count,
                         pool |-> Candidates(past_paper_by_topic,
                                             past_paper_by_type, topics,
                                             question_type, count),
                         questions |-> rs]
    /\ UNCHANGED <<instVars, files, past_paper_questions, past_paper_by_topic,
                   past_paper_by_type, available_topics, past_papers_loaded,
                   load_result, reqVars, clockVars, fnVars, paperVars>>

InitCorpora ==
    InitRequest /\ InitPaper /\ InitFn /\ \E fs \in FileSystems : InitCorpus(fs)

NextCorpus ==
    \/ \E p \in Paths : Load(p)
    \/ \E ts \in TopicLists, t \in TypedKinds, n \in 0..MaxReferences :
          GetReferenceQuestions(ts, t, n)

SpecCorpus == InitCorpora /\ [][NextCorpus]_vars

\* ---------------------------------------------------- paper generation
\* apis/api.py.  Its handlers are coroutines that call the blocking generator:
\* while generate_model_paper runs the event loop serves nothing else.
EventLoopFree == running = "none"

\* how generator.generate_model_paper ends: with a paper, or with an exception
\* whose message does or does not hold "quota" or "rate"
PaperOutcomes == {"paper", "rate", "error"}

EmptyCorpus ==
    [questions |-> <<>>, by_topic |-> EmptyIndex, by_type |-> EmptyIndex,
     topics |-> {}, loaded |-> FALSE, ret |-> FALSE]

\* /initialize: both generators are built anew, and the corpus is loaded when
\* load_past_papers is set
InitializeSystem(load_past_papers, past_papers_path) ==
    /\ EventLoopFree
    /\ model' = [g \in Gens |-> FALSE]
    /\ last_request_time' = [g \in Gens |-> 0 - min_request_interval]
    /\ LET new == IF load_past_papers
                  THEN load_past_paper_questions(EmptyCorpus, files, past_papers_path)
                  ELSE EmptyCorpus
       IN  /\ past_paper_questions' = new.questions
           /\ past_paper_by_topic' = new.by_topic
           /\ past_paper_by_type' = new.by_type
           /\ available_topics' = new.topics
           /\ past_papers_loaded' = new.loaded
           /\ load_result' = IF load_past_papers
                             THEN [called |-> TRUE, path |-> past_papers_path,
                                   ret |-> new.ret]
                             ELSE NoLoad
    /\ references' = NoReferences
    /\ UNCHANGED <<files, reqVars, clockVars, fnVars, paperVars>>

\* the answer of a paper endpoint that starts nothing
Rejected(status) ==
    /\ paper_response' = [status |-> status]
    /\ UNCHANGED <<is_generating, last_paper, scheduled, running, papers>>

\* /model-paper/generate up to the call of generator.generate_model_paper
GenerateModelPaper ==
    /\ EventLoopFree
    /\ paper_response = NoPaperResponse
    /\ papers < MaxPapers
    /\ IF ~past_papers_loaded THEN Rejected(400)
       ELSE IF is_generating THEN Rejected(409)
       ELSE /\ is_generating' = TRUE
            /\ running' = "sync"
            /\ UNCHANGED <<last_paper, scheduled, papers, paper_response>>
    /\ UNCHANGED <<instVars, corpusVars, reqVars, clockVars, fnVars>>

\* a finished call that forgets the last paper when it failed
GeneratedClearingLast(out) ==
    /\ papers' = IF out = "paper" THEN papers + 1 ELSE papers
    /\ last_paper' = IF out = "paper" THEN papers + 1 ELSE 0
    /\ is_generating' = FALSE
    /\ running' = "none"

\* what a finished generate_model_paper call leaves in generation_status
Generated(out) ==
    /\ papers' = IF out = "paper" THEN papers + 1 ELSE papers
    /\ last_paper' = IF out = "paper" THEN papers + 1 ELSE last_paper
    /\ is_generating' = FALSE
    /\ running' = "none"

\* /model-paper/generate from the return of generate_model_paper: the
\* response, 429 or 500, and the finally clause
GenerateModelPaperReturn ==
    /\ running = "sync"
    /\ \E out \in PaperOutcomes :
          /\ Generated(out)
          /\ paper_response' =
                [status |-> CASE out = "paper" -> 200
                              [] out = "rate" -> 429
                              [] out = "error" -> 500]
    /\ UNCHANGED <<instVars, corpusVars, reqVars, clockVars, fnVars, scheduled>>

\* a generate-async handler that schedules the task whatever is_generating says
GenerateModelPaperAsyncUnchecked ==
    /\ EventLoopFree
    /\ paper_response = NoPaperResponse
    /\ papers < MaxPapers
    /\ IF ~past_papers_loaded THEN Rejected(400)
       ELSE /\ is_generating' = TRUE
            /\ scheduled' = scheduled + 1
            /\ paper_response' = [status |-> 200]
            /\ UNCHANGED <<last_paper, running, papers>>
    /\ UNCHANGED <<instVars, corpusVars, reqVars, clockVars, fnVars>>

\* /model-paper/generate-async: the flag is set, then the configuration is
\* built (outside any try) and the background task is added
GenerateModelPaperAsync ==
    /\ EventLoopFree
    /\ paper_response = NoPaperResponse
    /\ papers < MaxPapers
    /\ IF ~past_papers_loaded THEN Rejected(400)
       ELSE IF is_generating THEN Rejected(409)
       ELSE /\ is_generating' = TRUE
            /\ \E built \in BOOLEAN :
                  /\ scheduled' = IF built THEN scheduled + 1 ELSE scheduled
                  /\ paper_response' = [status |-> IF built THEN 200 ELSE 500]
            /\ UNCHANGED <<last_paper, running, papers>>
    /\ UNCHANGED <<instVars, corpusVars, reqVars, clockVars, fnVars>>

\* generate_paper_background starts once the response has been sent
GeneratePaperBackground ==
    /\ EventLoopFree
    /\ scheduled > 0
    /\ scheduled' = scheduled - 1
    /\ running' = "background"
    /\ UNCHANGED <<instVars, corpusVars, reqVars, clockVars, fnVars, is_generating,
                   last_paper, papers, paper_response>>

\* generate_paper_background from the return of generate_model_paper
GeneratePaperBackgroundReturn ==
    /\ running = "background"
    /\ \E out \in PaperOutcomes : Generated(out)
    /\ UNCHANGED <<instVars, corpusVars, reqVars, clockVars, fnVars, scheduled,
                   paper_response>>

\* the answer of a paper endpoint has been sent
PaperAnswered ==
    /\ paper_response # NoPaperResponse
    /\ paper_response' = NoPaperResponse
    /\ UNCHANGED <<instVars, corpusVars, reqVars, clockVars, fnVars, is_generating,
                   last_paper, scheduled, running, papers>>

NextPaper ==
    \/ \E l \in BOOLEAN, p \in GenPaths : InitializeSystem(l, p)
    \/ GenerateModelPaper
    \/ GenerateModelPaperReturn
    \/ GenerateModelPaperAsync
    \/ GeneratePaperBackground
    \/ GeneratePaperBackgroundReturn
    \/ PaperAnswered

SpecPaper == InitGen /\ [][NextPaper]_vars

\* a generate_model_paper call returns or raises, a background task that was
\* added runs once the response is sent, and a response is delivered
FairPaper ==
    /\ WF_vars(GenerateModelPaperReturn)
    /\ WF_vars(GeneratePaperBackground)
    /\ WF_vars(GeneratePaperBackgroundReturn)
    /\ WF_vars(PaperAnswered)

SpecPaperFair == SpecPaper /\ FairPaper

\* /model-paper/last: generation_status["last_paper"], or 404 when it is None
LastPaper(paper) ==
    IF paper = 0
    THEN [fn |-> "last", status |-> 404, paper |-> 0]
    ELSE [fn |-> "last", status |-> 200, paper |-> paper]

GetLastGeneratedPaper ==
    /\ EventLoopFree
    /\ call' = [fn |-> "last"]
    /\ ret' = LastPaper(last_paper)
    /\ UNCHANGED <<instVars, corpusVars, reqVars, clockVars, paperVars,
                   topic_configs, appVars>>

NextLast == NextPaper \/ GetLastGeneratedPaper

SpecLast == InitGen /\ [][NextLast]_vars

\* ------------------------------------------------------ topic selection
\* model_paper_generator.py _select_topics.  available_topics is list(set):
\* its order is arbitrary and it is shuffled before use, so it is kept as a set.
MaxSelected == 4

DefaultTopic == "ගණිතය"

\* random.shuffle(available): the orders it can leave
Shuffles(S) ==
    { f \in [1..Cardinality(S) -> S] :
        \A i, j \in 1..Cardinality(S) : i # j => f[i] # f[j] }

\* a draw of any available topic at every position
select_topics_with_replacement(available, count) ==
    IF available = {} THEN { [i \in 1..count |-> DefaultTopic] }
    ELSE [1..count -> available]

\* the loop of _select_topics: refill and reshuffle when the copy is empty,
\* then pop its head
RECURSIVE SelectLoop(_, _, _, _)
SelectLoop(all, available, count, topics) ==
    IF count = 0 THEN {topics}
    ELSE UNION { SelectLoop(all, Tail(a), count - 1, Append(topics, Head(a))) :
                   a \in IF available = <<>> THEN Shuffles(all) ELSE {available} }

\* _select_topics(count): the lists it can return
select_topics(available, count) ==
    IF available = {} THEN { [i \in 1..count |-> DefaultTopic] }
    ELSE UNION { SelectLoop(available, a, count, <<>>) : a \in Shuffles(available) }

\* generator._select_topics(count)
SelectTopics(count) ==
    /\ pc = "idle"
    /\ call' = [fn |-> "select_topics", available |-> available_topics,
                count |-> count]
    /\ \E ts \in select_topics(available_topics, count) :
          ret' = [fn |-> "select_topics", topics |-> ts]
    /\ UNCHANGED <<topic_configs, appVars>>
    /\ UNCHANGED <<instVars, corpusVars, reqVars, clockVars, paperVars>>

SelectFileSystems ==
    { FileSystem(a, b, Missing) :
        a \in {Missing, Questions(CorpusA), Questions(CorpusBad)},
        b \in {Missing, Questions(CorpusB)} }

InitSelect ==
    InitRequest /\ InitPaper /\ InitFn /\ \E fs \in SelectFileSystems : InitCorpus(fs)

NextSelect ==
    \/ \E p \in Paths : Load(p)
    \/ \E n \in 0..MaxSelected : SelectTopics(n)

SpecSelect == InitSelect /\ [][NextSelect]_vars

\* ------------------------------------------------------ prompt construction
\* rag_model.py _build_prompt_with_context: the configuration it reads and
\* the fields of the prompt that come from it.

\* self.topic_configs.get(topic) / .get('පොළිය', {})
GetConfig(configs, topic) ==
    IF topic \in DOMAIN configs THEN configs[topic] ELSE EmptyConfig

\* a lookup that raises for a topic without configuration
topic_config_strict(configs, topic) ==
    IF topic \in DOMAIN configs THEN {configs[topic]} ELSE {}

\* lines 908-912: the topic's configuration, or the default topic's when the
\* topic has none (or an empty one)
topic_config(configs, topic) ==
    IF ~GetConfig(configs, topic).empty THEN {configs[topic]}
    ELSE {GetConfig(configs, DefaultTopicName)}

\* line 916: diff_configs.get(difficulty, diff_configs.get('medium', {}))
difficulty_config(diff_configs, difficulty) ==
    IF difficulty \in DOMAIN diff_configs THEN diff_configs[difficulty]
    ELSE IF "medium" \in DOMAIN diff_configs THEN diff_configs["medium"]
    ELSE NoParams

\* config.get(key, default) in the prompt's header
ParamDefault(k) ==
    CASE k = "description" -> <<"standard problems">>
      [] k = "steps" -> <<"3-4">>
      [] k = "numbers" -> <<"විචල්ය">>
      [] OTHER -> <<"">>

GetParam(config, k) == IF k \in DOMAIN config THEN config[k] ELSE ParamDefault(k)

\* the prompts _build_prompt_with_context can return: none when it raises
build_prompt_with_context(configs, topic, difficulty) ==
    { [fn |-> "build_prompt", topic |-> topic, difficulty |-> difficulty,
       params |-> [k \in ParamKeys |->
                     GetParam(difficulty_config(tc.difficulty, difficulty), k)],
       template |-> tc.prompt_template] :
        tc \in topic_config(configs, topic) }

PromptTopics == {DefaultTopicName, "සමීකරණ", "new", "unknown"}
Difficulties == Levels \cup {"expert"}

\* the configurations add_topic_config is given
CustomConfigs ==
    { Config(FALSE, [l \in Levels |-> Params("custom", l)], <<"custom", "template">>),
      Config(FALSE, [l \in {"easy"} |-> [k \in {"steps"} |-> <<"custom", l, k>>]],
             <<"custom", "template">>),
      Config(FALSE, NoParams, <<>>),
      EmptyConfig }

\* rag.add_topic_config(topic, config)
AddTopicConfig(topic, config) ==
    /\ pc = "idle"
    /\ topic_configs' =
          [t \in DOMAIN topic_configs \cup {topic} |->
              IF t = topic THEN config ELSE topic_configs[t]]
    /\ call' = NoCall
    /\ ret' = NoReturn
    /\ UNCHANGED <<instVars, corpusVars, reqVars, clockVars, paperVars, appVars>>

\* rag._build_prompt_with_context(topic, difficulty, ...)
BuildPrompt(topic, difficulty) ==
    /\ pc = "idle"
    /\ call' = [fn |-> "build_prompt", topic |-> topic, difficulty |-> difficulty]
    /\ ret' \in build_prompt_with_context(topic_configs, topic, difficulty)
    /\ UNCHANGED <<instVars, corpusVars, reqVars, clockVars, paperVars, topic_configs, appVars>>

NextPrompt ==
    \/ \E t \in PromptTopics \ {"unknown"}, c \in CustomConfigs : AddTopicConfig(t, c)
    \/ \E t \in PromptTopics, d \in Difficulties : BuildPrompt(t, d)

SpecPrompt == InitGen /\ [][NextPrompt]_vars

\* ------------------------------------------------------------ step lines
\* model_paper_generator.py, the STEPS block of the three parsers.  A line is
\* the sequence of its characters; the block is the sequence of its lines
\* (steps_match.group(1).strip().split('\n'): the strip of the block removes
\* only what the strip of each line removes again).
MaxLines == 2

\* str.lstrip(c) for one character c
RECURSIVE LStrip(_, _)
LStrip(line, c) ==
    IF line # <<>> /\ Head(line) = c THEN LStrip(Tail(line), c) ELSE line

RECURSIVE RStrip(_, _)
RStrip(line, c) ==
    IF line # <<>> /\ line[Len(line)] = c
    THEN RStrip(SubSeq(line, 1, Len(line) - 1), c) ELSE line

\* str.strip() over the blank
Strip(line) == RStrip(LStrip(line, " "), " ")

\* line.strip().lstrip('-').strip()
CleanLine(line) == Strip(LStrip(Strip(line), "-"))

HasEq(line) == \E i \in DOMAIN line : line[i] = "="

\* line.split('=', 1)
SplitAtFirstEq(line) ==
    LET i == CHOOSE k \in DOMAIN line :
                 line[k] = "=" /\ \A j \in 1..(k - 1) : line[j] # "="
    IN  <<SubSeq(line, 1, i - 1), SubSeq(line, i + 1, Len(line))>>

Step(description, value) == [description |-> description, value |-> value]

\* the loop over step_lines: the short-answer parser keeps a line without
\* '=' (elif line), the structured and essay parsers have no such branch
RECURSIVE parse_steps(_, _)
parse_steps(kind, lines) ==
    IF lines = <<>> THEN <<>>
    ELSE LET line == CleanLine(Head(lines))
             rest == parse_steps(kind, Tail(lines))
         IN  IF HasEq(line)
             THEN <<Step(Strip(SplitAtFirstEq(line)[1]),
                         Strip(SplitAtFirstEq(line)[2]))>> \o rest
             ELSE IF kind = "short_answer" /\ line # <<>>
                  THEN <<Step(line, <<>>)>> \o rest
                  ELSE rest

\* the lines a model writes in a STEPS block
StepLines ==
    { <<>>,
      <<" ">>,
      <<"-">>,
      <<"a">>,
      <<"-", " ", "a", " ", "b">>,
      <<"a", " ", "=", " ", "b">>,
      <<"-", " ", "a", "=", "b", "=", "c">>,
      <<"=">> }

StepBlocks == UNION { [1..n -> StepLines] : n \in 0..MaxLines }

\* the STEPS part of a parser, applied to one block
ParseSteps ==
    /\ call.fn = "parse_steps"
    /\ ret = NoReturn
    /\ ret' = [fn |-> "parse_steps", steps |-> parse_steps(call.kind, call.lines)]
    /\ UNCHANGED <<instVars, corpusVars, reqVars, clockVars, paperVars, call,
                   topic_configs, appVars>>

\* a parser is handed a block
InitSteps ==
    /\ InitRequest /\ InitCorpus(FsGen) /\ InitPaper
    /\ topic_configs = BuiltinConfigs
    /\ InitApp
    /\ \E k \in TypedKinds, b \in StepBlocks :
          call = [fn |-> "parse_steps", kind |-> k, lines |-> b]
    /\ ret = NoReturn

NextSteps == ParseSteps

SpecSteps == InitSteps /\ [][NextSteps]_vars

\* ------------------------------------------------------- region splitting
\* model_paper_generator.py, the head of the three parsers.  A response text
\* is a sequence of pieces: a START or END wrapper marker, the separator
\* '---' (SEP), or a chunk of field text that holds none of the three.  A
\* chunk carries the fields a parser reads from it; a chunk that has a
\* question text ends it with its STEPS: / SUB_QUESTION: marker.
MaxPieces == 3

Piece(tok, reg) == [tok |-> tok, reg |-> reg]
NoFields == Reg(EmptyTxt, 0, 0, 0)
Marker(tok) == Piece(tok, NoFields)
Chunk(reg) == Piece("chunk", reg)

\* the chunks a model writes: a valid question, and its invalid relatives
Chunks(kind) ==
    CASE kind = "short_answer" ->
            { Chunk(Reg(Txt(60, 1, 1), 0, 0, 7)),
              Chunk(Reg(Txt(ShortMinLen, 1, 0), 0, 0, 1)) }
      [] kind = "structured" ->
            { Chunk(Reg(Txt(60, 1, 1), StructuredMinSubs, 0, 7)),
              Chunk(Reg(Txt(60, 2, 1), StructuredMinSubs - 1, 0, 1)),
              Chunk(Reg(EmptyTxt, 1, 0, 0)) }
      [] kind = "essay_type" ->
            { Chunk(Reg(Txt(EssayMinLen + 1, 1, 1), EssayMinSubs, 0, 7)),
              Chunk(Reg(Txt(EssayMinLen + 1, 2, 1), EssayMinSubs - 1, 0, 1)),
              Chunk(Reg(EmptyTxt, 1, 0, 0)) }

Pieces(kind) == {Marker("START"), Marker("END"), Marker("SEP")} \cup Chunks(kind)

Texts(kind) == UNION { [1..n -> Pieces(kind)] : n \in 0..MaxPieces }

\* re.findall(r'START(.*?)END', text, re.DOTALL) from position i on: the
\* text between the first START and the first END after it, then onwards
RECURSIVE FindAll(_, _)
FindAll(text, i) ==
    LET starts == { k \in i..Len(text) : text[k].tok = "START" }
    IN  IF starts = {} THEN <<>>
        ELSE LET st == CHOOSE k \in starts : \A x \in starts : k <= x
                 ends == { k \in (st + 1)..Len(text) : text[k].tok = "END" }
             IN  IF ends = {} THEN <<>>
                 ELSE LET en == CHOOSE k \in ends : \A x \in ends : k <= x
                      IN  <<SubSeq(text, st + 1, en - 1)>> \o FindAll(text, en + 1)

\* text.split('---')
RECURSIVE SplitSep(_, _)
SplitSep(text, part) ==
    IF text = <<>> THEN <<part>>
    ELSE IF Head(text).tok = "SEP" THEN <<part>> \o SplitSep(Tail(text), <<>>)
    ELSE SplitSep(Tail(text), Append(part, Head(text)))

\* 'QUESTION:' in part or 'NUMBER:' in part (short answer);
\* 'MAIN_CONTEXT:' / 'SCENARIO:' in part or 'SUB_QUESTION:' in part
HasMarker(kind, part) ==
    \E i \in DOMAIN part :
        /\ part[i].tok = "chunk"
        /\ \/ part[i].reg.question.len > 0
           \/ IF kind = "short_answer" THEN part[i].reg.number > 0
              ELSE part[i].reg.subs > 0

\* a split that never falls back to the separator
split_primary_only(kind, text) ==
    [fallback |-> FALSE, regions |-> FindAll(text, 1)]

\* lines 291-300, 526-535, 783-792: the regions a parser reads
split_regions(kind, text) ==
    LET matches == FindAll(text, 1)
    IN  IF matches = <<>>
        THEN [fallback |-> TRUE,
              regions |-> SelectSeq(SplitSep(text, <<>>),
                                    LAMBDA part : HasMarker(kind, part))]
        ELSE [fallback |-> FALSE, regions |-> matches]

RECURSIVE SumSubs(_)
SumSubs(region) ==
    IF region = <<>> THEN 0 ELSE Head(region).reg.subs + SumSubs(Tail(region))

\* the fields re.search / re.findall read from a region: the first NUMBER,
\* the first question text, every sub-question
Fields(region) ==
    LET withQ == SelectSeq(region, LAMBDA x : x.reg.question.len > 0)
        withN == SelectSeq(region, LAMBDA x : x.reg.number > 0)
    IN  Reg(IF withQ = <<>> THEN EmptyTxt ELSE Head(withQ).reg.question,
            SumSubs(region), 0,
            IF withN = <<>> THEN 0 ELSE Head(withN).reg.number)

\* _parse_short_answer_response / _parse_structured_response /
\* _parse_essay_response on a response text
parse_response(kind, text) ==
    LET sp == split_regions(kind, text)
    IN  [fn |-> "parse_response", fallback |-> sp.fallback,
         questions |-> Parse(kind, [i \in DOMAIN sp.regions |-> Fields(sp.regions[i])])]

ParseResponse ==
    /\ call.fn = "parse_response"
    /\ ret = NoReturn
    /\ ret' = parse_response(call.kind, call.text)
    /\ UNCHANGED <<instVars, corpusVars, reqVars, clockVars, paperVars, call,
                   topic_configs, appVars>>

\* a parser is handed a response text
InitSplit ==
    /\ InitRequest /\ InitCorpus(FsGen) /\ InitPaper
    /\ topic_configs = BuiltinConfigs
    /\ InitApp
    /\ \E k \in TypedKinds : \E t \in Texts(k) :
          call = [fn |-> "parse_response", kind |-> k, text |-> t]
    /\ ret = NoReturn

NextSplit == ParseResponse

SpecSplit == InitSplit /\ [][NextSplit]_vars

\* ----------------------------------------------------- region extraction
\* The loop of a parser over the regions of one response, a region whose
\* NUMBER int() refuses among them.
RaisingRegion == Reg(Txt(60, 2, 1), EssayMinSubs + 1, 0, -1)

ParsedRegions(kind) ==
    Regions(kind) \cup (IF kind = "lesson" THEN {} ELSE {RaisingRegion})

ParseRegions ==
    /\ call.fn = "parse"
    /\ ret = NoReturn
    /\ ret' = [fn |-> "parse", questions |-> Parse(call.kind, call.regions)]
    /\ UNCHANGED <<instVars, corpusVars, reqVars, clockVars, paperVars, call,
                   topic_configs, appVars>>

\* a parser has split a response into regions
InitParse ==
    /\ InitRequest /\ InitCorpus(FsGen) /\ InitPaper
    /\ topic_configs = BuiltinConfigs
    /\ InitApp
    /\ \E k \in Kinds :
          \E rs \in UNION { [1..n -> ParsedRegions(k)] : n \in 0..MaxRegions } :
              call = [fn |-> "parse", kind |-> k, regions |-> rs]
    /\ ret = NoReturn

NextParse == ParseRegions

SpecParse == InitParse /\ [][NextParse]_vars

\* ------------------------------------------------------------- start-up
\* app/main.py startup_event and the singletons of app/dependencies.py.
StartupPath == Path(FALSE, DefaultName)

KeyError == [status |-> 500, detail |-> "GEMINI_API_KEY not configured"]

\* startup_event: get_rag_system(), rag.load_all_data(),
\* get_model_paper_generator(), generator.load_past_paper_questions(...);
\* whatever is raised is caught and printed as a warning
Startup ==
    /\ app = "starting"
    /\ app' = "serving"
    /\ IF api_key
       THEN /\ instance' = [g \in Gens |-> TRUE]
            /\ LET cur == [questions |-> past_paper_questions,
                           by_topic |-> past_paper_by_topic,
                           by_type |-> past_paper_by_type,
                           topics |-> available_topics,
                           loaded |-> past_papers_loaded, ret |-> FALSE]
                   new == load_past_paper_questions(cur, files, StartupPath)
               IN  /\ past_paper_questions' = new.questions
                   /\ past_paper_by_topic' = new.by_topic
                   /\ past_paper_by_type' = new.by_type
                   /\ available_topics' = new.topics
                   /\ past_papers_loaded' = new.loaded
                   /\ load_result' = [called |-> TRUE, path |-> StartupPath,
                                      ret |-> new.ret]
            /\ UNCHANGED <<files, references>>
       ELSE UNCHANGED <<instance, corpusVars>>
    /\ UNCHANGED <<instVars, reqVars, clockVars, paperVars, call, ret,
                   topic_configs, api_key, storeVars>>

\* Depends(get_rag_system) / Depends(get_model_paper_generator) of a request:
\* the singleton, built now if it is missing, or 500 without the key
Depend(g) ==
    /\ app = "serving"
    /\ pc = "idle"
    /\ IF instance[g] \/ api_key
       THEN /\ instance' = [instance EXCEPT ![g] = TRUE]
            /\ response' = NoResponse
       ELSE /\ response' = KeyError
            /\ UNCHANGED instance
    /\ UNCHANGED <<instVars, corpusVars, pc, req, all_questions, attempts, result,
                   calls, waits, last_outcome, only_rate, last_sleep, clockVars,
                   paperVars, call, ret, topic_configs, api_key, app, storeVars>>

\* a request to load past papers that got its generator
Reload(json_path) ==
    /\ app = "serving"
    /\ instance["mpg"]
    /\ Load(json_path)

InitStartup ==
    /\ InitRequest /\ InitPaper
    /\ \E fs \in FileSystems : InitCorpus(fs)
    /\ call = NoCall /\ ret = NoReturn /\ topic_configs = BuiltinConfigs
    /\ api_key \in BOOLEAN
    /\ app = "starting"
    /\ instance = [g \in Gens |-> FALSE]
    /\ InitStore

NextStartup ==
    \/ Startup
    \/ \E g \in Gens : Depend(g)
    \/ \E p \in Paths : Reload(p)

SpecStartup == InitStartup /\ [][NextStartup]_vars

\* ------------------------------------------------------------ retrieval
\* rag_model.py retrieve_context and the head of generate_questions. A
\* retriever is the data_loaded flag, the collections that exist (none when
\* the vector store could not be set up) and what each collection's query
\* does: it raises, or it returns some documents.
NResults == 3

CollectionNames == {"examples", "exercises", "paragraphs", "guidelines"}

QueryOutcomes ==
    {[raises |-> TRUE, items |-> 0]}
        \cup {[raises |-> FALSE, items |-> n] : n \in {0, NResults}}

\* the query outcomes per collection: "examples" answers one way, the other
\* collections another
SearchMaps ==
    {[name \in CollectionNames |-> IF name = "examples" THEN a ELSE b] :
        a, b \in QueryOutcomes}

Idle == [name \in CollectionNames |-> [raises |-> FALSE, items |-> 0]]

\* a retriever that is never queried (no data loaded or no collections), or
\* one that is
Retrievers ==
    {[data_loaded |-> d, collections |-> c, search |-> Idle] :
        d \in BOOLEAN, c \in {{}, CollectionNames}}
        \cup {[data_loaded |-> TRUE, collections |-> CollectionNames, search |-> s] :
                 s \in SearchMaps}

\* retrieve_context without its try / except around the query
retrieve_context_propagating(collections, search) ==
    [raised |-> \E name \in collections : search[name].raises,
     results |-> [name \in collections |-> search[name].items]]

\* retrieve_context: the number of items found per collection; a query that
\* raises counts as an empty list
retrieve_context(collections, search) ==
    [raised |-> FALSE,
     results |-> [name \in collections |->
                     IF search[name].raises THEN 0 ELSE search[name].items]]

NoContext == [raised |-> FALSE, results |-> [name \in {} |-> 0]]

\* generate_questions before its loop: context and rag_used
RetrieveContext ==
    /\ pc = "idle"
    /\ call.fn = "generate_questions"
    /\ ret = NoReturn
    /\ LET r == IF call.data_loaded /\ call.collections # {}
                THEN retrieve_context(call.collections, call.search)
                ELSE NoContext
       IN  ret' = [fn |-> "generate_questions", raised |-> r.raised,
                   context |-> r.results,
                   rag_used |-> \E name \in DOMAIN r.results : r.results[name] > 0]
    /\ UNCHANGED <<instVars, corpusVars, reqVars, clockVars, paperVars, call,
                   topic_configs, appVars>>

RetrievalError ==
    [type |-> "error", error |-> "Exception", msg |-> "query failed",
     has_quota |-> FALSE, has_rate |-> FALSE]

\* generate_questions from its loop on, behind /generate of apis/api.py
StartLessonRetrieved(count) ==
    /\ pc = "idle"
    /\ ret # NoReturn
    /\ req = NoReq
    /\ IF ret.raised
       THEN Refuse("lesson", "api", count, RetrievalError,
                   ApiLessonResponse(RetrievalError, count))
       ELSE EnterLoop("lesson", "api", count)

InitRag ==
    /\ InitRequest /\ InitCorpus(FsGen) /\ InitPaper
    /\ topic_configs = BuiltinConfigs
    /\ InitApp
    /\ \E r \in Retrievers :
          call = [fn |-> "generate_questions", data_loaded |-> r.data_loaded,
                  collections |-> r.collections, search |-> r.search]
    /\ ret = NoReturn

NextRag ==
    \/ RetrieveContext
    \/ \E n \in Counts : StartLessonRetrieved(n)
    \/ AttemptLesson
    \/ Finish

SpecRag == InitRag /\ [][NextRag]_vars

\* -------------------------------------------------------- attempt budget
\* The typed generators' loops counted only: how many questions each attempt
\* asks the model for, against a model that returns exactly that many valid
\* questions. ret holds len(all_questions) and attempts.
ShortBatch == 5
StructuredBatch == 2
EssayBatch == 1

\* the largest count an endpoint accepts: the full-paper request's fields
ShortMaxCount == 25
StructuredMaxCount == 10
EssayMaxCount == 10

MaxCount(kind) ==
    CASE kind = "short_answer" -> ShortMaxCount
      [] kind = "structured" -> StructuredMaxCount
      [] kind = "essay_type" -> EssayMaxCount

\* the count put into the prompt of one attempt
batch_count(kind, count, remaining) ==
    CASE kind = "short_answer" -> Min(Min(ShortBatch, count), remaining + 2)
      [] kind = "structured" -> Min(StructuredBatch, remaining)
      [] kind = "essay_type" -> EssayBatch

\* one pass of the while loop with a response of batch_count valid questions
IdealAttempt ==
    /\ call.fn = "generate"
    /\ ~ret.returned
    /\ ret.have < call.count /\ ret.attempts < MaxAttempts(call.kind)
    /\ ret' = [ret EXCEPT
                  !.attempts = @ + 1,
                  !.have = Min(call.count,
                               @ + batch_count(call.kind, call.count, call.count - @))]
    /\ UNCHANGED <<instVars, corpusVars, reqVars, clockVars, paperVars, call,
                   topic_configs, appVars>>

\* the loop has ended: 'count': len(all_questions), 'requested': count
ReturnCount ==
    /\ call.fn = "generate"
    /\ ~ret.returned
    /\ ~(ret.have < call.count /\ ret.attempts < MaxAttempts(call.kind))
    /\ ret' = [ret EXCEPT !.returned = TRUE]
    /\ UNCHANGED <<instVars, corpusVars, reqVars, clockVars, paperVars, call,
                   topic_configs, appVars>>

InitBudget ==
    /\ InitRequest /\ InitCorpus(FsGen) /\ InitPaper
    /\ topic_configs = BuiltinConfigs
    /\ InitApp
    /\ \E k \in TypedKinds : \E n \in 1..MaxCount(k) :
          call = [fn |-> "generate", kind |-> k, count |-> n]
    /\ ret = [fn |-> "generate", have |-> 0, attempts |-> 0, returned |-> FALSE]

NextBudget == IdealAttempt \/ ReturnCount

SpecBudget == InitBudget /\ [][NextBudget]_vars

\* ----------------------------------------------------------- math quizzes
\* app/routers/math_quiz.py: a quiz document is its status and its userId.
\* Each handler runs for current_user u; ret is its answer.
Answer(fn, status, detail) == [fn |-> fn, status |-> status, detail |-> detail]

QuizStep(fn, q, doc, answer) ==
    /\ call' = [fn |-> fn, quiz |-> q]
    /\ quizzes' = [quizzes EXCEPT ![q] = doc]
    /\ ret' = answer
    /\ UNCHANGED <<instVars, corpusVars, reqVars, clockVars, paperVars,
                   topic_configs, api_key, app, instance, users, signup>>

\* POST /math-quiz/save: insert_one with status 'not-started'
save_quiz(q, u) ==
    /\ quizzes[q] = NoQuiz
    /\ QuizStep("save", q, [status |-> "not-started", userId |-> u],
                Answer("save", 200, "Quiz saved successfully"))

\* PUT /math-quiz/{quiz_id}/start: update_one filtered by _id and userId
start_quiz(q, u) ==
    IF quizzes[q].userId = u
    THEN QuizStep("start", q, [quizzes[q] EXCEPT !.status = "in-progress"],
                  Answer("start", 200, ""))
    ELSE QuizStep("start", q, quizzes[q], Answer("start", 404, "Quiz not found"))

\* PUT /math-quiz/{quiz_id}/submit: find_one by _id and userId, then update_one
submit_quiz(q, u) ==
    IF quizzes[q].userId = u
    THEN QuizStep("submit", q, [quizzes[q] EXCEPT !.status = "completed"],
                  Answer("submit", 200, ""))
    ELSE QuizStep("submit", q, quizzes[q], Answer("submit", 404, "Quiz not found"))

\* DELETE /math-quiz/{quiz_id}: delete_one filtered by _id, userId and
\* status != 'completed'; when nothing was deleted, find_one by _id alone
delete_quiz(q, u) ==
    IF quizzes[q].userId = u /\ quizzes[q].status # "completed"
    THEN QuizStep("delete", q, NoQuiz, Answer("delete", 200, ""))
    ELSE IF quizzes[q].status = "completed"
         THEN QuizStep("delete", q, quizzes[q],
                       Answer("delete", 400, "Cannot delete completed quiz"))
         ELSE QuizStep("delete", q, quizzes[q],
                       Answer("delete", 404, "Quiz not found or cannot be deleted"))

NextQuiz ==
    \E q \in QuizIds, u \in Owners :
        \/ save_quiz(q, u)
        \/ start_quiz(q, u)
        \/ submit_quiz(q, u)
        \/ delete_quiz(q, u)

SpecQuiz == InitGen /\ [][NextQuiz]_vars

\* ---------------------------------------------------------------- sign-up
\* app/routers/auth.py sign_up: two awaits, find_one and insert_one; other
\* requests run between them.
Registered(email) == \E i \in 1..Len(users) : users[i] = email

SignupStep(r, to) ==
    /\ signup' = [signup EXCEPT ![r] = to]
    /\ UNCHANGED <<instVars, corpusVars, reqVars, clockVars, paperVars, call, ret,
                   topic_configs, api_key, app, instance, quizzes>>

\* await users_collection.find_one({"email": user.email}); 400 when found
FindOne(r, email) ==
    /\ signup[r].pc = "idle"
    /\ Len(users) < MaxUsers
    /\ IF Registered(email)
       THEN SignupStep(r, [pc |-> "refused", email |-> email])
       ELSE SignupStep(r, [pc |-> "insert", email |-> email])
    /\ UNCHANGED users

\* await users_collection.insert_one(new_user); 201
InsertOne(r) ==
    /\ signup[r].pc = "insert"
    /\ SignupStep(r, [signup[r] EXCEPT !.pc = "created"])
    /\ users' = Append(users, signup[r].email)

\* the answer is sent
SignupReturn(r) ==
    /\ signup[r].pc \in {"created", "refused"}
    /\ SignupStep(r, NoSignup)
    /\ UNCHANGED users

NextSignup ==
    \E r \in Requests :
        \/ \E email \in Emails : FindOne(r, email)
        \/ InsertOne(r)
        \/ SignupReturn(r)

SpecSignup == InitGen /\ [][NextSignup]_vars

\* ------------------------------------------------------------------ claims
\* the lists a request holds: the loop's accumulated list and a returned batch
Batch == IF result.type = "batch" THEN result.questions ELSE <<>>

DistinctPrefixes(qs) ==
    \A i, j \in 1..Len(qs) :
        i # j => Prefix(qs[i].question) # Prefix(qs[j].question)

\* C1: no two questions of an accumulated or returned batch, of any
\* generator, share the first 50 characters of their question text
DedupInvariant == DistinctPrefixes(all_questions) /\ DistinctPrefixes(Batch)

\* the attempt budget the generators are said to have
Budget(kind) ==
    CASE kind = "short_answer" -> 3
      [] kind = "structured" -> 4
      [] kind = "essay_type" -> 4
      [] kind = "lesson" -> 5
      [] OTHER -> 0

\* C2: a generator never holds or returns more questions than were requested,
\* and it returns fewer only when its attempts are exhausted
CountWithinRequested ==
    /\ Len(all_questions) <= req.count
    /\ result.type = "batch" =>
          /\ Len(result.questions) <= req.count
          /\ Len(result.questions) < req.count => attempts = Budget(req.kind)
          /\ req.kind # "lesson" =>
                /\ result.count = Len(result.questions)
                /\ result.requested = req.count
                /\ 0 <= result.count /\ result.count <= result.requested

PartialBatchReturned ==
    /\ result.type = "batch"
    /\ req.kind = "short_answer"
    /\ req.count = 2
    /\ Len(result.questions) = 1
    /\ attempts = 3

ValidShape(kind, q) ==
    CASE kind = "structured" -> q.question.len > 0 /\ q.subs >= 2
      [] kind = "essay_type" -> q.question.len > 50 /\ q.subs >= 3
      [] OTHER -> TRUE

\* C3: every structured question held or returned has a non-empty context and
\* at least 2 sub-questions; every essay question a context longer than 50
\* characters and at least 3 sub-questions
ShapeValidity ==
    /\ \A i \in 1..Len(all_questions) : ValidShape(req.kind, all_questions[i])
    /\ \A i \in 1..Len(Batch) : ValidShape(req.kind, Batch[i])

ShapedBatchesReturned ==
    /\ result.type = "batch"
    /\ req.kind \in {"structured", "essay_type"}
    /\ Len(result.questions) = 2

\* C4: a request whose loop accumulated nothing ends in an error, never in an
\* empty success
ZeroAccumulatedFails ==
    pc = "done" /\ attempts > 0 /\ all_questions = <<>> =>
        /\ result.type = "error"
        /\ response.status # 200

\* C5: every successful response carries count and requested
SuccessCarriesCounts ==
    response.status = 200 =>
        /\ "count" \in DOMAIN response.body
        /\ "requested" \in DOMAIN response.body

\* C6: a generator loop issues at most max_attempts calls (3 short-answer, 4
\* structured, 4 essay, 5 lesson-wise), one per attempt, every iteration
\* consumes exactly one attempt, and once the budget is spent the loop can
\* only return
TerminationBound ==
    /\ [](pc # "idle" => calls = attempts /\ attempts <= Budget(req.kind))
    /\ [](pc = "loop" /\ attempts = Budget(req.kind) =>
            /\ ENABLED Finish
            /\ ~ENABLED (AttemptShort \/ AttemptStructured \/ AttemptEssay
                            \/ AttemptLesson))
    /\ [][pc = "loop" /\ pc' = "loop" /\
            (calls' # calls \/ all_questions' # all_questions
                \/ attempts' # attempts)
          => calls' = calls + 1 /\ attempts' = attempts + 1]_vars

BudgetExhausted ==
    /\ pc = "done"
    /\ req.kind = "lesson"
    /\ attempts = 5
    /\ calls = 5
    /\ Len(all_questions) < req.count

InFlight == scheduled + (IF running = "none" THEN 0 ELSE 1)

\* a paper endpoint answers in this step a request that found is_generating set
AnsweredWhileGenerating ==
    /\ is_generating
    /\ running = "none"
    /\ paper_response = NoPaperResponse
    /\ paper_response' # NoPaperResponse

CallsSpacedApart == call_gap >= 2


\* the argument of the latest load names no file / none of the places the
\* loader looks in holds a file
NoFileAtPath == files[possible_paths(load_result.path)[1]].kind = "missing"
NoFileAnywhere == ~Found(files, load_result.path)

NothingIndexed == past_paper_by_topic = EmptyIndex /\ past_paper_by_type = EmptyIndex

IndexesMatchQuestions ==
    /\ \A i \in DOMAIN past_paper_questions :
          LET q == past_paper_questions[i]
          IN  /\ ~q.bad
              /\ \A t \in Range(parse_topics(q.topic)) :
                    InSeq(q, GetList(past_paper_by_topic, t))
              /\ InSeq(q, GetList(past_paper_by_type, IndexType(q)))
    /\ \A t \in DOMAIN past_paper_by_topic :
          \A i \in DOMAIN past_paper_by_topic[t] :
              InSeq(past_paper_by_topic[t][i], past_paper_questions)
    /\ \A t \in DOMAIN past_paper_by_type :
          \A i \in DOMAIN past_paper_by_type[t] :
              InSeq(past_paper_by_type[t][i], past_paper_questions)
    /\ available_topics = DOMAIN past_paper_by_topic

\* C11: a reader never observes a partially rebuilt corpus: the question
\* list, the by-topic index, the by-type index and available_topics always
\* belong to one corpus, the old one or the fully built new one
NeverPartiallyRebuilt == IndexesMatchQuestions

\* the questions of the requested type indexed under one of the given topics
TopicalPool ==
    { q \in UNION { Range(GetList(past_paper_by_topic, t)) :
                      t \in Range(references.topics) } :
        q.type = references.type }

\* the questions the by-type index holds for the requested type
TypePool == Range(GetList(past_paper_by_type, references.type))

NoRepeats(qs) == \A i, j \in DOMAIN qs : i # j => qs[i] # qs[j]

Block(ts, k, m) == { i \in DOMAIN ts : (k - 1) * m < i /\ i <= k * m }

\* C13: _select_topics(n) returns exactly n topics; with m > 0 available
\* topics every consecutive block of m returned topics has no repeated topic
\* and, when complete, is a permutation of the available set
TopicsDrawnWithoutReplacement ==
    ret.fn = "select_topics" =>
        LET ts == ret.topics
            m == Cardinality(call.available)
        IN  /\ Len(ts) = call.count
            /\ m = 0 => \A i \in DOMAIN ts : ts[i] = DefaultTopic
            /\ m > 0 =>
                  \A k \in 1..call.count :
                      /\ \A i, j \in Block(ts, k, m) : i # j => ts[i] # ts[j]
                      /\ \A i \in Block(ts, k, m) : ts[i] \in call.available
                      /\ Cardinality(Block(ts, k, m)) = m =>
                            { ts[i] : i \in Block(ts, k, m) } = call.available

\* more topics than there are were requested: the draw started over
TopicsCycled ==
    /\ ret.fn = "select_topics"
    /\ Cardinality(call.available) > 1
    /\ call.count > Cardinality(call.available)
    /\ Len(ret.topics) = call.count

\* the configuration a prompt for the called topic is to be built from
Chosen ==
    IF call.topic \in DOMAIN topic_configs /\ ~topic_configs[call.topic].empty
    THEN topic_configs[call.topic]
    ELSE IF DefaultTopicName \in DOMAIN topic_configs
         THEN topic_configs[DefaultTopicName]
         ELSE EmptyConfig

Rendered(params) == [k \in ParamKeys |-> GetParam(params, k)]

\* C14: a prompt for a topic without configuration is built from the default
\* topic's configuration, a difficulty without an entry takes the chosen
\* configuration's medium parameters, and a prompt is built for every topic
\* and difficulty
PromptFallsBack ==
    /\ pc = "idle" =>
          \A t \in PromptTopics, d \in Difficulties : ENABLED BuildPrompt(t, d)
    /\ ret.fn = "build_prompt" =>
          /\ ret.template = Chosen.prompt_template
          /\ call.topic \notin DOMAIN topic_configs =>
                ret.template = topic_configs[DefaultTopicName].prompt_template
          /\ call.difficulty \in DOMAIN Chosen.difficulty =>
                ret.params = Rendered(Chosen.difficulty[call.difficulty])
          /\ call.difficulty \notin DOMAIN Chosen.difficulty
                /\ "medium" \in DOMAIN Chosen.difficulty =>
                ret.params = Rendered(Chosen.difficulty["medium"])

\* an unconfigured topic at an unknown difficulty got the default topic's
\* medium parameters
UnknownTopicAndDifficultyBuilt ==
    /\ ret.fn = "build_prompt"
    /\ call.topic \notin DOMAIN topic_configs
    /\ call.difficulty \notin Levels
    /\ "medium" \in DOMAIN topic_configs[DefaultTopicName].difficulty
    /\ ret.params = Rendered(topic_configs[DefaultTopicName].difficulty["medium"])

\* the lines of a block that are not empty once blanks and list dashes are
\* taken off
StepLinesOf(lines) == SelectSeq(lines, LAMBDA l : CleanLine(l) # <<>>)

\* C15: in every parser each non-empty line of a STEPS block yields exactly
\* one step, in line order: a line with '=' is split at its first '=' into
\* description and value, a line without '=' yields a step with the line as
\* description and an empty value
EveryStepLineYieldsAStep ==
    ret.fn = "parse_steps" =>
        LET ls == StepLinesOf(call.lines)
        IN  /\ Len(ret.steps) = Len(ls)
            /\ \A i \in DOMAIN ls :
                  LET l == CleanLine(ls[i])
                  IN  IF HasEq(l)
                      THEN /\ ret.steps[i].description = Strip(SplitAtFirstEq(l)[1])
                           /\ ret.steps[i].value = Strip(SplitAtFirstEq(l)[2])
                      ELSE /\ ret.steps[i].description = l
                           /\ ret.steps[i].value = <<>>

\* a complete START .. END pair stands in the called text
HasWrappedRegion ==
    \E i, j \in DOMAIN call.text :
        i < j /\ call.text[i].tok = "START" /\ call.text[j].tok = "END"

\* pieces i..j hold no wrapper marker, lie in no START .. END region and
\* carry the fields of a question that is valid for the shape
BareValidQuestion(i, j) ==
    /\ i <= j
    /\ \A k \in i..j : call.text[k].tok \notin {"START", "END"}
    /\ ~ \E a, b \in DOMAIN call.text :
            /\ a < i /\ j < b
            /\ call.text[a].tok = "START" /\ call.text[b].tok = "END"
            /\ \A k \in (a + 1)..(i - 1) : call.text[k].tok # "END"
    /\ Gate(call.kind, Fields(SubSeq(call.text, i, j)))

\* piece i is a valid question and '---' stands between it and every other
\* chunk of the text
LoneValidQuestion(i) ==
    /\ call.text[i].tok = "chunk"
    /\ Gate(call.kind, call.text[i].reg)
    /\ \A j \in DOMAIN call.text :
          j # i /\ call.text[j].tok = "chunk" =>
              \E k \in (Min(i, j) + 1)..(Max(i, j) - 1) : call.text[k].tok = "SEP"

\* the parser split on '---' exactly when no START .. END region was found
FallbackExactlyWhenUnwrapped ==
    ret.fallback <=> ~HasWrappedRegion

AllValid(kind, qs) ==
    \A i \in DOMAIN qs :
        Gate(kind, Reg(qs[i].question, qs[i].subs, 0, 0))

\* C16: a response without any START .. END region that holds a valid
\* question standing alone between '---' separators yields at least one
\* valid question, and the '---' split is used exactly when the START .. END
\* split finds no region
UnwrappedQuestionRecovered ==
    ret.fn = "parse_response" =>
        /\ FallbackExactlyWhenUnwrapped
        /\ AllValid(call.kind, ret.questions)
        /\ ~HasWrappedRegion /\ (\E i \in DOMAIN call.text : LoneValidQuestion(i)) =>
              Len(ret.questions) >= 1

\* a valid question without wrappers, next to the remnant of one, was
\* recovered by the '---' split
RecoveredBySeparator ==
    /\ ret.fn = "parse_response"
    /\ ret.fallback
    /\ \E i \in DOMAIN call.text : LoneValidQuestion(i)
    /\ \E i \in DOMAIN call.text : call.text[i].tok = "START"
    /\ Len(ret.questions) >= 1

\* C16 as stated: whenever the text holds a valid question outside any
\* START .. END region, at least one valid question is returned
AnyUnwrappedQuestionRecovered ==
    ret.fn = "parse_response" =>
        /\ FallbackExactlyWhenUnwrapped
        /\ (\E i, j \in DOMAIN call.text : BareValidQuestion(i, j)) =>
              Len(ret.questions) >= 1

NumberedInOrder(qs) == \A i \in DOMAIN qs : qs[i].question_number = i

\* C17: in every typed batch, held or returned by the generator or carried by
\* the endpoint's response, the i-th question has question_number i
QuestionsNumberedByPosition ==
    /\ req.kind \in TypedKinds => NumberedInOrder(all_questions)
    /\ result.type = "batch" /\ result.kind \in TypedKinds =>
          NumberedInOrder(result.questions)
    /\ response.status = 200 /\ req.kind \in TypedKinds =>
          NumberedInOrder(response.body.questions)

\* a returned batch of two whose second question the model had numbered 7
RenumberedBatchReturned ==
    /\ result.type = "batch"
    /\ result.kind = "structured"
    /\ Len(result.questions) = 2
    /\ result.questions[2].question = Txt(60, 1, 1)
    /\ result.questions[2].question_number = 2

\* the delay an escalating backoff multiplies by the attempt number
BaseDelay(kind) == IF kind = "lesson" THEN RateBackoff ELSE api_delay

\* C18: after a rate-limit error at attempt k every generator has slept
\* k x base_delay, within its attempt budget, and is still in its loop
RateLimitBackoffGrows ==
    req.kind # "none" /\ last_outcome = "rate" =>
        /\ last_sleep = attempts * BaseDelay(req.kind)
        /\ attempts <= MaxAttempts(req.kind)
        /\ pc \in {"loop", "done"}

\* the generator raised after it had called the model
GeneratorFailed == pc = "done" /\ result.type = "error" /\ attempts > 0

\* C19: a request that failed with every attempt rate-limited is answered
\* 429, a request that failed for another reason is answered 500
RateLimitAnsweredDistinctly ==
    GeneratorFailed /\ req.route # "direct" =>
        /\ only_rate => response.status = 429
        /\ ~only_rate => response.status = 500

AnyAttempt == AttemptShort \/ AttemptStructured \/ AttemptEssay \/ AttemptLesson

\* a response can hold a valid question that the list does not hold yet (by
\* its first 50 characters, for the lesson-wise generator)
NewQuestionPossible ==
    \E r \in Regions(req.kind) :
        /\ Gate(req.kind, r)
        /\ req.kind = "lesson" =>
              \A i \in DOMAIN all_questions :
                  Prefix(all_questions[i].question) # Prefix(r.question)

\* C20: a model call that returns no text leaves the accumulated list as it
\* was and the loop running; while attempts < max_attempts another call
\* follows, and a text it returns with a new valid question is parsed and
\* accumulated
EmptyResponseNotTerminal ==
    /\ [][last_outcome' = "empty" /\ attempts' = attempts + 1 =>
              all_questions' = all_questions /\ pc' = "loop"]_vars
    /\ [](pc = "loop" /\ last_outcome = "empty"
              /\ attempts < MaxAttempts(req.kind) =>
                 /\ ENABLED AnyAttempt
                 /\ ~ENABLED Finish
                 /\ NewQuestionPossible =>
                       ENABLED (AnyAttempt
                                  /\ Len(all_questions') > Len(all_questions)))

\* a response without text arrived after a question had been accumulated, and
\* the loop goes on
EmptyResponseRetried ==
    /\ pc = "loop"
    /\ last_outcome = "empty"
    /\ all_questions # <<>>
    /\ attempts < MaxAttempts(req.kind)
    /\ NewQuestionPossible

\* the region passes extraction and validation
Passes(kind, r) == ~(kind # "lesson" /\ r.number < 0) /\ Gate(kind, r)

\* C21: a parser returns exactly the regions that pass extraction and
\* validation, in their order; a region that is malformed or raises is
\* skipped, and the questions returned are those the parser returns for the
\* response without the skipped regions
OnlyBadRegionsSkipped ==
    ret.fn = "parse" =>
        LET good == SelectSeq(call.regions, LAMBDA r : Passes(call.kind, r))
        IN  /\ Len(ret.questions) = Len(good)
            /\ \A i \in DOMAIN good :
                  /\ ret.questions[i].question = good[i].question
                  /\ call.kind = "lesson" =>
                        ret.questions[i].solution = good[i].solution
                  /\ call.kind # "lesson" =>
                        /\ ret.questions[i].subs = good[i].subs
                        /\ ret.questions[i].question_number =
                              IF good[i].number > 0 THEN good[i].number ELSE i
            /\ ret.questions = Parse(call.kind, good)

\* a valid region after a region that raised was returned
RegionAfterRaiseParsed ==
    /\ ret.fn = "parse"
    /\ Len(call.regions) = 2
    /\ call.kind # "lesson" /\ call.regions[1].number < 0
    /\ Passes(call.kind, call.regions[2])
    /\ Len(ret.questions) = 1

\* C22: without the API key the failure is raised at start-up: no generator
\* instance exists and the application never serves requests
MissingKeyFailsAtStartup ==
    ~api_key =>
        /\ \A g \in Gens : ~instance[g]
        /\ app # "serving"
        /\ response # KeyError

\* C23: whatever the retriever does, lesson-wise generation runs its retry
\* loop to the end, fails only when the loop accumulated nothing, and reports
\* rag_used exactly when some collection returned at least one snippet
Retrieved ==
    /\ call.data_loaded
    /\ \E name \in call.collections :
          ~call.search[name].raises /\ call.search[name].items > 0

RetrieverNeverFailsRequest ==
    ret # NoReturn =>
        /\ ret.rag_used <=> Retrieved
        /\ ~ret.rag_used => \A name \in DOMAIN ret.context : ret.context[name] = 0
        /\ pc = "loop" /\ Len(all_questions) < req.count
              /\ attempts < MaxAttempts("lesson") => ENABLED AttemptLesson
        /\ pc = "done" =>
              /\ Len(all_questions) >= req.count \/ attempts = MaxAttempts("lesson")
              /\ result.type = "error" => result = FailedToGenerate /\ all_questions = <<>>
              /\ all_questions # <<>> => result.type = "batch" /\ response.status = 200

RaisingRetrieverAnswered ==
    /\ pc = "done"
    /\ call.fn = "generate_questions"
    /\ call.data_loaded
    /\ \A name \in call.collections : call.search[name].raises
    /\ call.collections # {}
    /\ ~ret.rag_used
    /\ result.type = "batch"
    /\ response.status = 200

\* C24: a load that returns false after an earlier successful load leaves the
\* question list, the indexes, available_topics and the loaded flag unchanged
FailedReloadKeepsCorpus ==
    [][(past_papers_loaded /\ (\E p \in Paths : Load(p)) /\ ~load_result'.ret)
          => UNCHANGED <<past_paper_questions, past_paper_by_topic,
                         past_paper_by_type, available_topics,
                         past_papers_loaded>>]_vars

\* C25: with a model that always returns as many valid questions as the
\* prompt asked for, every request within the endpoint bounds ends with
\* count = requested
BudgetSuffices ==
    call.fn = "generate" /\ ret.returned => ret.have = call.count

\* C26: within one request the accumulated list only grows at its end: the
\* list before an attempt is a prefix of the list after it, the list is not
\* touched when the loop ends, and a returned batch is a prefix of it
IsPrefixOf(a, b) ==
    /\ Len(a) <= Len(b)
    /\ \A i \in 1..Len(a) : a[i] = b[i]

AccumulatedListOnlyGrows ==
    /\ [][pc = "loop" => IsPrefixOf(all_questions, all_questions')]_vars
    /\ [](pc = "done" /\ result.type = "batch"
             => IsPrefixOf(result.questions, all_questions))

GrownOverTwoAttempts ==
    /\ pc = "done"
    /\ result.type = "batch"
    /\ attempts >= 2
    /\ last_outcome = "text"
    /\ Len(all_questions) >= 2
    /\ Len(result.questions) >= 2

\* C27: after every accepted paper-generation request is_generating
\* eventually returns to false, also when the set-up after the flag was set
\* fails
FlagEventuallyReleased == is_generating ~> ~is_generating

CompletedQuizStays ==
    [][\A q \in QuizIds :
          quizzes[q].status = "completed" =>
              /\ quizzes'[q] = quizzes[q]
              /\ call'.fn = "delete" /\ call'.quiz = q
                    => ret'.detail = "Cannot delete completed quiz"]_vars

\* C30: under any interleaving of sign-ups the user store never holds two
\* users with the same e-mail
UniqueEmails ==
    \A i, j \in 1..Len(users) : users[i] = users[j] => i = j

====
